---- MODULE Spec2Model ----
(***************************************************************************)
(* The Engine component of reactylon                                       *)
(* (packages/library/src/components/core/Engine.tsx): the effect that runs *)
(* initializeScene, the render-loop callback it registers, the two         *)
(* suspension points of initializeScene (HavokPhysics, createDefaultXR-    *)
(* ExperienceAsync), the mount through the reconciler and the cleanup      *)
(* closure initializeScene returns.                                        *)
(*                                                                         *)
(* Objects are numbered from 1 in creation order; 0 is null.               *)
(*                                                                         *)
(* A second part models the parameter-name recovery of the library         *)
(* (getFunctionParams, getClassConstructorParams and their helpers) over   *)
(* the syntax tree the parser hands them.                                  *)
(***************************************************************************)
EXTENDS Integers, Sequences, FiniteSets, TLC

\* Bounds of the exploration: how often the effect fires for one component (its
\* dependency canvasRef never changes, but React re-runs effects under StrictMode
\* and Fast Refresh), how many cameras a scene has, and how often the closures
\* returned by initializeScene are called.
MaxTriggers == 2
MaxCameras == 1
MaxCleanupCalls == 2

\* The longest parameter list of a parsed function or constructor.
MaxParams == 3

NULL == 0
TheCanvas == 1

VARIABLES
    props,              \* the props the effect closes over (lines 81-82)
    canvasRef,          \* canvasRef.current (line 84)
    engine,             \* engine.current (line 85)
    scene,              \* scene.current (line 87)
    rootContainer,      \* rootContainer.current (line 88)
    engines,            \* the BabylonEngine objects constructed so far
    scenes,             \* the Scene objects constructed so far
    containers,         \* the RootContainer objects constructed so far
    inits,              \* one record per invocation of initializeScene
    windowListeners,    \* invocations whose onResizeWindow is on window
    documentListeners,  \* invocations whose keydown handler is on document
    lastFrame,          \* what the most recent render-loop callback saw and did
    teardown,           \* "none", or how far initialization was when the component unmounted
    fnAst,              \* ast.body[0] of the source given to the parameter-name recovery
    extraction          \* what the parameter-name recovery returned and logged

vars == <<props, canvasRef, engine, scene, rootContainer, engines, scenes, containers,
          inits, windowListeners, documentListeners, lastFrame, teardown, fnAst, extraction>>

PhysicsChoices == {"none", "plugin", "noPlugin"}

\* EngineProps, as far as initializeScene reads them.
Props ==
    [loader : BOOLEAN, onSceneReady : BOOLEAN, isInteractiveInspector : BOOLEAN,
     isGui3DManager : BOOLEAN, xrDefaultExperienceOptions : BOOLEAN,
     physicsOptions : PhysicsChoices]

\* The program state as one record, so that a handler is a composition of steps.
St ==
    [props |-> props, canvasRef |-> canvasRef, engine |-> engine, scene |-> scene,
     rootContainer |-> rootContainer, engines |-> engines, scenes |-> scenes,
     containers |-> containers, inits |-> inits, windowListeners |-> windowListeners,
     documentListeners |-> documentListeners, lastFrame |-> lastFrame]

Commit(S) ==
    /\ canvasRef' = S.canvasRef
    /\ engine' = S.engine
    /\ scene' = S.scene
    /\ rootContainer' = S.rootContainer
    /\ engines' = S.engines
    /\ scenes' = S.scenes
    /\ containers' = S.containers
    /\ inits' = S.inits
    /\ windowListeners' = S.windowListeners
    /\ documentListeners' = S.documentListeners
    /\ lastFrame' = S.lastFrame
    /\ props' = props
    /\ UNCHANGED <<fnAst, extraction>>

\* The value of the two context providers (lines 178-179) before any render.
NoContext ==
    [engine |-> NULL, canvas |-> NULL, scene |-> NULL, sceneReady |-> FALSE,
     xrExperience |-> NULL]

\* Record one call that invocation i of initializeScene (or its closure) makes on a
\* collaborator: the operation and the object it is made on, in program order.
Call(S, i, op, on) ==
    [S EXCEPT !.inits[i].trace = Append(@, [op |-> op, on |-> on])]

\* No callback has run yet.
NoFrame ==
    [engine |-> NULL, iterated |-> NULL, cam |-> [activeCamera |-> FALSE, cameras |-> 0],
     owned |-> <<>>, seen |-> <<>>]

\* The props explored: every physics and XR choice, with each of the four options
\* that guard one statement of their own (lines 97, 122, 146, 169) taken both ways.
\* No source has been parsed, and nothing has been extracted.
NoAst == [type |-> "none", ctor |-> FALSE, params |-> <<>>]

NoExtraction == [done |-> FALSE, threw |-> FALSE, result |-> <<>>, warnings |-> <<>>]

ExploredProps ==
    {p \in Props : p.loader = p.onSceneReady /\ p.isGui3DManager = ~p.isInteractiveInspector}

\* Lines 84-88: the refs of a component whose effect has not fired.
Unconstructed ==
    /\ canvasRef = NULL
    /\ engine = NULL
    /\ scene = NULL
    /\ rootContainer = NULL
    /\ engines = <<>>
    /\ scenes = <<>>
    /\ containers = <<>>
    /\ inits = <<>>
    /\ windowListeners = {}
    /\ documentListeners = {}
    /\ lastFrame = NoFrame
    /\ teardown = "none"

Init ==
    /\ props \in ExploredProps
    /\ Unconstructed
    /\ fnAst = NoAst
    /\ extraction = NoExtraction

NewInit ==
    [pc |-> "running", canvas |-> NULL, engine |-> NULL, scene |-> NULL, container |-> NULL,
     physicsScene |-> NULL, xrScene |-> NULL,
     havokCalls |-> 0, cleanupCalls |-> 0, published |-> NoContext, trace |-> <<>>]

NewEngine == [disposeCalls |-> 0, scenes |-> <<>>, renderLoop |-> FALSE, loadingScreen |-> FALSE]

NewScene(e) ==
    [engine |-> e, physics |-> "none", sceneReadyCalls |-> 0, disposed |-> FALSE]

NewContainer(S) ==
    [scene |-> S.scene, hostInstance |-> S.scene, children |-> 0,
     gui3DManager |-> S.props.isGui3DManager, parent |-> NULL]

(***************************************************************************)
(* The reconciler's render entry point, Reactylon.render(tree, container). *)
(* Mounting a tree leaves its host node under the root host node;          *)
(* rendering null detaches every host node of the container.  A null       *)
(* container has no host nodes to change.                                  *)
(***************************************************************************)
ReactylonRender(S, i, tree, c) ==
    LET S1 == Call(S, i, IF tree THEN "render" ELSE "renderNull", c)
    IN  IF c = NULL
        THEN S1
        ELSE [S1 EXCEPT !.containers[c].children = IF tree THEN 1 ELSE 0]

\* Lines 145-182: the inspector listener, the RootContainer, the mount render;
\* then the function returns the cleanup closure (line 186).
MountSection(S, i, xr) ==
    LET S1 == IF S.props.isInteractiveInspector
              THEN Call([S EXCEPT !.documentListeners = @ \cup {i}], i, "addKeydown", NULL)
              ELSE S
        c  == Len(S1.containers) + 1
        S2 == [S1 EXCEPT !.containers = Append(@, NewContainer(S1)),
                         !.rootContainer = c,
                         !.inits[i].container = c]
        S3 == [S2 EXCEPT !.inits[i].published =
                            [engine |-> S2.engine, canvas |-> S2.canvasRef,
                             scene |-> S2.scene, sceneReady |-> TRUE,
                             xrExperience |-> xr]]
        S4 == ReactylonRender(S3, i, TRUE, S3.rootContainer)
    IN  [S4 EXCEPT !.inits[i].pc = "done"]

\* XRSection with the await of line 143 left out: the pending promise is published.
XRSectionNoAwait(S, i) ==
    IF S.props.xrDefaultExperienceOptions
    THEN MountSection(Call([S EXCEPT !.inits[i].xrScene = S.scene], i, "createXR", S.scene),
                      i, S.scene)
    ELSE MountSection(S, i, NULL)

\* Lines 140-144: xrExperience starts null; with XR options the function calls
\* createDefaultXRExperienceAsync on scene.current and suspends.
XRSection(S, i) ==
    IF S.props.xrDefaultExperienceOptions
    THEN Call([S EXCEPT !.inits[i].pc = "awaitXR", !.inits[i].xrScene = S.scene],
              i, "createXR", S.scene)
    ELSE MountSection(S, i, NULL)

\* scene.enablePhysics(gravity, plugin) on the scene the call expression named.
EnablePhysics(S, i, s, plugin) ==
    Call([S EXCEPT !.scenes[s].physics = plugin], i, "enablePhysics", s)

\* PhysicsSection with the module loaded before physicsOptions?.plugin is looked at.
PhysicsSectionEagerLoad(S, i) ==
    CASE S.props.physicsOptions = "none" -> XRSection(S, i)
      [] OTHER ->
            Call([S EXCEPT !.inits[i].pc = "awaitHavok",
                           !.inits[i].physicsScene = S.scene,
                           !.inits[i].havokCalls = @ + 1],
                 i, "HavokPhysics", NULL)

\* PhysicsSection with the await of line 131 left out: the module load is started
\* and the function goes straight on to the XR section.
PhysicsSectionNoAwait(S, i) ==
    CASE S.props.physicsOptions = "none" -> XRSection(S, i)
      [] S.props.physicsOptions = "plugin" -> XRSection(EnablePhysics(S, i, S.scene, "plugin"), i)
      [] OTHER ->
            XRSection(Call([S EXCEPT !.inits[i].physicsScene = S.scene,
                                     !.inits[i].havokCalls = @ + 1],
                           i, "HavokPhysics", NULL), i)

\* Lines 124-139: no physics options, a supplied plugin (synchronous), or the
\* default plugin, whose module HavokPhysics() loads: the function suspends with
\* the callee scene.current.enablePhysics already evaluated.
PhysicsSection(S, i) ==
    CASE S.props.physicsOptions = "none" -> XRSection(S, i)
      [] S.props.physicsOptions = "plugin" -> XRSection(EnablePhysics(S, i, S.scene, "plugin"), i)
      [] OTHER ->
            Call([S EXCEPT !.inits[i].pc = "awaitHavok",
                           !.inits[i].physicsScene = S.scene,
                           !.inits[i].havokCalls = @ + 1],
                 i, "HavokPhysics", NULL)

\* SceneSection with lines 121 and 122 exchanged: onSceneReady gets the old
\* scene.current, before the scene is constructed.
SceneSectionReadyFirst(S, i) ==
    LET s  == Len(S.scenes) + 1
        S0 == IF S.props.onSceneReady THEN Call(S, i, "onSceneReady", S.scene) ELSE S
    IN  Call([S0 EXCEPT !.scenes = Append(@, NewScene(S.engine)),
                        !.engines[S.engine].scenes = Append(@, s),
                        !.scene = s,
                        !.inits[i].scene = s],
             i, "newScene", s)

\* Lines 121-122: the scene and the onSceneReady callback.
SceneSection(S, i) ==
    LET s  == Len(S.scenes) + 1
        S1 == Call([S EXCEPT !.scenes = Append(@, NewScene(S.engine)),
                             !.engines[S.engine].scenes = Append(@, s),
                             !.scene = s,
                             !.inits[i].scene = s],
                   i, "newScene", s)
    IN  IF S.props.onSceneReady
        THEN Call([S1 EXCEPT !.scenes[s].sceneReadyCalls = @ + 1], i, "onSceneReady", s)
        ELSE S1

\* EngineSection without the addEventListener of line 116.
EngineSectionNoResize(S, i) ==
    LET e  == Len(S.engines) + 1
        S1 == Call([S EXCEPT !.engines = Append(@, [NewEngine EXCEPT !.loadingScreen = S.props.loader]),
                             !.engine = e,
                             !.inits[i].engine = e],
                   i, "newEngine", e)
    IN  Call([S1 EXCEPT !.engines[e].renderLoop = TRUE], i, "runRenderLoop", e)

\* Lines 96-116: the engine, the loading screen, the render loop, the resize listener.
EngineSection(S, i) ==
    LET e  == Len(S.engines) + 1
        S1 == Call([S EXCEPT !.engines = Append(@, [NewEngine EXCEPT !.loadingScreen = S.props.loader]),
                             !.engine = e,
                             !.inits[i].engine = e],
                   i, "newEngine", e)
        S2 == Call([S1 EXCEPT !.engines[e].renderLoop = TRUE], i, "runRenderLoop", e)
    IN  Call([S2 EXCEPT !.windowListeners = @ \cup {i}], i, "addResize", NULL)

\* InitializeScene without the canvasRef.current test of line 92.
InitializeSceneNoGuard(S) ==
    LET i  == Len(S.inits) + 1
        S0 == [S EXCEPT !.inits = Append(@, [NewInit EXCEPT !.canvas = S.canvasRef])]
    IN  PhysicsSection(SceneSection(EngineSection(S0, i), i), i)

\* Lines 91-197 up to the first suspension: initializeScene called by the effect.
\* The invocation keeps the canvasRef.current it found at line 92.
InitializeScene(S) ==
    LET i  == Len(S.inits) + 1
        S0 == [S EXCEPT !.inits = Append(@, [NewInit EXCEPT !.canvas = S.canvasRef])]
    IN  IF S0.canvasRef = NULL
        THEN [S0 EXCEPT !.inits[i].pc = "skipped"]
        ELSE PhysicsSection(SceneSection(EngineSection(S0, i), i), i)

\* The component is in the React tree: its effect can still fire.
InTree == teardown = "none"

\* Lines 90-199: the effect fires and calls initializeScene(); it returns nothing.
Trigger ==
    /\ InTree
    /\ Len(inits) < MaxTriggers
    /\ Commit(InitializeScene(St))
    /\ UNCHANGED teardown

\* Line 214: React attaches the canvas element to canvasRef.
AttachCanvas ==
    /\ InTree
    /\ canvasRef = NULL
    /\ Commit([St EXCEPT !.canvasRef = TheCanvas])
    /\ UNCHANGED teardown

\* Line 131: the HavokPhysics() promise resolves; lines 126-138 complete and the
\* function goes on to the XR section.
HavokResolved(i) ==
    /\ inits[i].pc = "awaitHavok"
    /\ Commit(XRSection(EnablePhysics(Call([St EXCEPT !.inits[i].pc = "running"],
                                           i, "havokResolved", NULL),
                                      i, inits[i].physicsScene, "havok"), i))
    /\ UNCHANGED teardown

\* Line 131: the HavokPhysics() promise rejects: initializeScene's promise rejects.
HavokRejected(i) ==
    /\ inits[i].pc = "awaitHavok"
    /\ Commit(Call([St EXCEPT !.inits[i].pc = "failed"], i, "havokRejected", NULL))
    /\ UNCHANGED teardown

\* Line 143: createDefaultXRExperienceAsync resolves with the experience of the scene.
XRResolved(i) ==
    /\ inits[i].pc = "awaitXR"
    /\ Commit(MountSection(Call([St EXCEPT !.inits[i].pc = "running"],
                                 i, "xrResolved", inits[i].xrScene),
                            i, inits[i].xrScene))
    /\ UNCHANGED teardown

\* XRRejected with the rejection caught around line 143: the function goes on to
\* the mount section without an XR experience.
XRRejectedCaught(i) ==
    /\ inits[i].pc = "awaitXR"
    /\ Commit(MountSection(Call([St EXCEPT !.inits[i].pc = "running"],
                                 i, "xrRejected", inits[i].xrScene),
                            i, NULL))
    /\ UNCHANGED teardown

\* Line 143: createDefaultXRExperienceAsync rejects: initializeScene's promise
\* rejects, and nothing after line 143 runs.
XRRejected(i) ==
    /\ inits[i].pc = "awaitXR"
    /\ Commit(Call([St EXCEPT !.inits[i].pc = "failed"], i, "xrRejected", inits[i].xrScene))
    /\ UNCHANGED teardown

\* What the application has made of its scenes when a frame comes: whether a scene
\* has an active camera (scene.activeCamera, line 102) and how many cameras are
\* attached (scene.cameras.length, line 107).  The scenes of one Engine component
\* are populated by the same onSceneReady and the same children, and are taken to
\* be in the same camera state.  The active camera of a scene is one of its cameras.
CameraStates ==
    {c \in [activeCamera : BOOLEAN, cameras : 0..MaxCameras] : c.activeCamera => c.cameras > 0}

\* RenderScene without the scene.cameras?.length > 0 test of line 107.
RenderSceneAlways(s, cam) ==
    [scene |-> s,
     warnings |-> IF ~cam.activeCamera THEN 1 ELSE 0,
     renders |-> 1]

\* Lines 102-109: the body of the forEach for scene s in camera state cam: what the
\* callback saw and how often it called console.warn and scene.render() on s.
RenderScene(s, cam) ==
    [scene |-> s,
     warnings |-> IF ~cam.activeCamera THEN 1 ELSE 0,
     renders |-> IF cam.cameras > 0 THEN 1 ELSE 0]

\* Lines 100-111: the callback given to runRenderLoop, run for a frame of engine e
\* with the scenes in camera state cam.  It iterates engine.current.scenes,
\* whichever engine the ref holds at that time; owned are the scenes of e itself.
RenderLoopCallback(S, e, cam) ==
    LET list == S.engines[S.engine].scenes
    IN  [S EXCEPT !.lastFrame =
            [engine |-> e, iterated |-> S.engine, cam |-> cam,
             owned |-> S.engines[e].scenes,
             seen |-> [k \in DOMAIN list |-> RenderScene(list[k], cam)]]]

\* The engine's scheduler runs the render loop of engine e once.
Frame(e) ==
    /\ engines[e].renderLoop
    /\ \E cam \in CameraStates : Commit(RenderLoopCallback(St, e, cam))
    /\ UNCHANGED teardown

\* BabylonEngine.dispose(): the render loop stops and the owned scenes are disposed.
EngineDispose(S, i, e) ==
    Call([S EXCEPT !.engines[e].disposeCalls = @ + 1,
                   !.engines[e].renderLoop = FALSE,
                   !.engines[e].scenes = <<>>,
                   !.scenes = [s \in DOMAIN S.scenes |->
                                 IF S.scenes[s].engine = e
                                 THEN [S.scenes[s] EXCEPT !.disposed = TRUE]
                                 ELSE S.scenes[s]]],
         i, "dispose", e)

\* Lines 186-195: the closure initializeScene returns.
Cleanup(S, i) ==
    LET S1 == Call([S EXCEPT !.windowListeners = @ \ {i}], i, "removeResize",
                   IF i \in S.windowListeners THEN 1 ELSE NULL)
        S2 == EngineDispose(S1, i, S1.engine)
        S3 == ReactylonRender(S2, i, FALSE, S2.rootContainer)
    IN  [S3 EXCEPT !.rootContainer = NULL, !.inits[i].cleanupCalls = @ + 1]

\* How far the invocations of initializeScene have come: one is suspended at an
\* await, or else one has returned its closure, or else one has thrown, or else
\* none has passed the canvasRef guard.
Phase ==
    IF \E i \in DOMAIN inits : inits[i].pc \in {"awaitHavok", "awaitXR"} THEN "Initializing"
    ELSE IF \E i \in DOMAIN inits : inits[i].pc = "done" THEN "Mounted"
    ELSE IF \E i \in DOMAIN inits : inits[i].pc = "failed" THEN "Failed"
    ELSE "Idle"

\* Lines 90-199 and 214: the component unmounts.  React detaches the canvas ref and
\* runs the effect's cleanup; the effect returned none (line 198 drops the promise
\* of initializeScene, and with it the closure of line 186).
EffectCleanup(S) == S

Unmount ==
    /\ InTree
    /\ Commit(EffectCleanup([St EXCEPT !.canvasRef = NULL]))
    /\ teardown' = Phase

RECURSIVE CleanupCallsUpTo(_)
CleanupCallsUpTo(n) == IF n = 0 THEN 0 ELSE inits[n].cleanupCalls + CleanupCallsUpTo(n - 1)

\* The closure returned by a completed initializeScene is called directly.
CallCleanup(i) ==
    /\ inits[i].pc = "done"
    /\ CleanupCallsUpTo(Len(inits)) < MaxCleanupCalls
    /\ Commit(Cleanup(St, i))
    /\ UNCHANGED teardown

Next ==
    \/ Trigger
    \/ AttachCanvas
    \/ \E i \in DOMAIN inits : HavokResolved(i)
    \/ \E i \in DOMAIN inits : HavokRejected(i)
    \/ \E i \in DOMAIN inits : XRResolved(i)
    \/ \E i \in DOMAIN inits : XRRejected(i)
    \/ \E e \in DOMAIN engines : Frame(e)
    \/ Unmount

\* The component as React drives it.
Spec == Init /\ [][Next]_vars

NextCleanup ==
    \/ Next
    \/ \E i \in DOMAIN inits : CallCleanup(i)

\* The component, with the closure returned by initializeScene called by its holder.
SpecCleanup == Init /\ [][NextCleanup]_vars


(***************************************************************************)
(* Parameter-name recovery                                                 *)
(***************************************************************************)

\* The identifiers of the parsed sources.
Names == {"a", "b"}

\* JavaScript's undefined (the name property of a node that has none) and null.
\* Neither is an identifier: "" is empty and null is a reserved word.
Undefined == ""
JsNull == "null"

\* A node without children of interest.
Leaf(t, n) == [type |-> t, name |-> n]

\* The nodes the parser produces in a parameter list: an identifier, a default
\* (AssignmentPattern) over an identifier or a destructuring pattern, a rest
\* element over an identifier or a pattern, a bare destructuring pattern.  sub
\* is the left of an AssignmentPattern and the argument of a RestElement.
Patterns == {Leaf("ObjectPattern", Undefined), Leaf("ArrayPattern", Undefined)}

Targets == {Leaf("Identifier", n) : n \in Names} \cup Patterns

ParamNodes ==
    {[type |-> "Identifier", name |-> n, sub |-> Leaf("none", Undefined)] : n \in Names}
    \cup {[type |-> "AssignmentPattern", name |-> Undefined, sub |-> l] : l \in Targets}
    \cup {[type |-> "RestElement", name |-> Undefined, sub |-> a] : a \in Targets}
    \cup {[type |-> p.type, name |-> Undefined, sub |-> Leaf("none", Undefined)] : p \in Patterns}

\* The parameter lists of the language: a rest element is the last parameter.
ParamLists ==
    UNION {{ps \in [1..n -> ParamNodes] :
                \A k \in 1..n : ps[k].type = "RestElement" => k = n} : n \in 0..MaxParams}

\* ast.body[0] for the sources the recovery is given: a function declaration, an
\* arrow function (an expression statement), a class with a constructor, a class
\* without one.  params are the parameters of the function or constructor.
Programs ==
    {[type |-> t, ctor |-> FALSE, params |-> ps] :
        t \in {"FunctionDeclaration", "ExpressionStatement"}, ps \in ParamLists}
    \cup {[type |-> "ClassDeclaration", ctor |-> TRUE, params |-> ps] : ps \in ParamLists}
    \cup {[type |-> "ClassDeclaration", ctor |-> FALSE, params |-> <<>>]}

\* Lines 55-62.
RECURSIVE getDestructuredParameterName(_)
getDestructuredParameterName(pattern) ==
    IF pattern.type = "Identifier" THEN pattern.name
    ELSE IF pattern.type = "MemberExpression"
         THEN getDestructuredParameterName(pattern.property)
         ELSE JsNull

\* Lines 64-69.
getRestParameterName(argument) ==
    IF argument.type = "Identifier" THEN argument.name ELSE JsNull

\* Lines 13-37: the callback mapped over node.params; warned is whether it called
\* console.warn.
TraverseParam(param) ==
    IF param.name # Undefined THEN [name |-> param.name, warned |-> FALSE]
    ELSE IF param.type = "AssignmentPattern"
         THEN [name |-> getDestructuredParameterName(param.sub), warned |-> FALSE]
    ELSE IF param.type = "RestElement"
         THEN [name |-> getRestParameterName(param.sub), warned |-> FALSE]
    ELSE IF param.type = "Identifier" THEN [name |-> param.name, warned |-> FALSE]
    ELSE [name |-> JsNull, warned |-> TRUE]

\* Lines 11-40: null for a node that is not a function.
traverse(node) ==
    IF node.type \in {"FunctionDeclaration", "FunctionExpression"}
    THEN [isNull |-> FALSE,
          entries |-> [k \in DOMAIN node.params |-> TraverseParam(node.params[k])]]
    ELSE [isNull |-> TRUE, entries |-> <<>>]

\* (parameters || []) of lines 9 and 51, as the names traverse produced.
OrEmpty(parameters) ==
    IF parameters.isNull THEN <<>>
    ELSE [k \in DOMAIN parameters.entries |-> parameters.entries[k].name]

\* The parameter types console.warn (line 35) was called with during traverse(node).
Warnings(node, parameters) ==
    LET list == IF parameters.isNull THEN <<>> ELSE parameters.entries
        warned == SelectSeq([k \in DOMAIN list |-> k], LAMBDA k : list[k].warned)
    IN  [k \in DOMAIN warned |-> node.params[warned[k]].type]

\* .filter(param => param !== null) of lines 9 and 51.
RemoveNulls(names) == SelectSeq(names, LAMBDA n : n # JsNull)

\* getFunctionParams returning what traverse produced, without the filter of line 51.
getFunctionParamsUnfiltered(ast) ==
    LET parameters == traverse(ast)
    IN  [done |-> TRUE, threw |-> FALSE,
         result |-> OrEmpty(parameters),
         warnings |-> Warnings(ast, parameters)]

\* Lines 43-52, from the parsed source on.
getFunctionParams(ast) ==
    LET parameters == traverse(ast)
    IN  [done |-> TRUE, threw |-> FALSE,
         result |-> RemoveNulls(OrEmpty(parameters)),
         warnings |-> Warnings(ast, parameters)]

\* Lines 3-10, from the parsed source on.  find() gives undefined for a class
\* without a constructor, and reading its value throws a TypeError.
getClassConstructorParams(ast) ==
    IF ~ast.ctor
    THEN [done |-> TRUE, threw |-> TRUE, result |-> <<>>, warnings |-> <<>>]
    ELSE LET value == [type |-> "FunctionExpression", params |-> ast.params]
             parameters == traverse(value)
         IN  [done |-> TRUE, threw |-> FALSE,
              result |-> RemoveNulls(OrEmpty(parameters)),
              warnings |-> Warnings(value, parameters)]

\* props when none is given: the defaults of the destructuring of line 82.
DefaultProps ==
    [loader |-> FALSE, onSceneReady |-> FALSE, isInteractiveInspector |-> FALSE,
     isGui3DManager |-> TRUE, xrDefaultExperienceOptions |-> FALSE,
     physicsOptions |-> "none"]

InitParams ==
    /\ props = DefaultProps
    /\ Unconstructed
    /\ fnAst \in Programs
    /\ extraction = NoExtraction

UnchangedComponent ==
    UNCHANGED <<props, canvasRef, engine, scene, rootContainer, engines, scenes, containers,
                inits, windowListeners, documentListeners, lastFrame, teardown>>

\* getFunctionParams is called with the source of a function.
CallGetFunctionParams ==
    /\ ~extraction.done
    /\ fnAst.type \in {"FunctionDeclaration", "ExpressionStatement"}
    /\ extraction' = getFunctionParams(fnAst)
    /\ UNCHANGED fnAst
    /\ UnchangedComponent

\* getClassConstructorParams is called with a class.
CallGetClassConstructorParams ==
    /\ ~extraction.done
    /\ fnAst.type = "ClassDeclaration"
    /\ extraction' = getClassConstructorParams(fnAst)
    /\ UNCHANGED fnAst
    /\ UnchangedComponent

NextParams ==
    \/ CallGetFunctionParams
    \/ CallGetClassConstructorParams

\* The parameter-name recovery applied to one parsed source.
SpecParams == InitParams /\ [][NextParams]_vars

(***************************************************************************)
(* Properties                                                              *)
(***************************************************************************)

\* The positions of operation op in the calls of invocation i.
Positions(i, op) == {k \in DOMAIN inits[i].trace : inits[i].trace[k].op = op}

Completed == {i \in DOMAIN inits : inits[i].pc = "done"}

Suspended == {i \in DOMAIN inits : inits[i].pc \in {"awaitHavok", "awaitXR"}}

\* C1: once initializeScene has run to completion, the unmount of the component
\* leaves the engine that invocation created disposed, by exactly one dispose().
C1_TeardownDisposesEngineOnce ==
    teardown = "Mounted" =>
        \A i \in Completed : engines[inits[i].engine].disposeCalls = 1

\* C2: every run of the disposal sequence removes the resize listener, then renders
\* null against the root container, then disposes the engine: each dispose() comes
\* right after a null render, which comes right after the listener's removal.
C2_DisposalOrder ==
    \A i \in DOMAIN inits : \A k \in Positions(i, "dispose") :
        /\ k - 2 \in Positions(i, "removeResize")
        /\ k - 1 \in Positions(i, "renderNull")

\* C3: however often the closure of an invocation is called, the resize listener is
\* removed once, dispose() is called once and the reconciler is never given a null
\* root container.
C3_TeardownIdempotent ==
    \A i \in DOMAIN inits : inits[i].cleanupCalls >= 1 =>
        /\ Cardinality({k \in Positions(i, "removeResize") : inits[i].trace[k].on # NULL}) = 1
        /\ Cardinality(Positions(i, "dispose")) = 1
        /\ \A k \in Positions(i, "renderNull") : inits[i].trace[k].on # NULL

\* C4: however often the effect fires, at most one engine is constructed, at most
\* one render-loop callback and one resize listener are registered and at most one
\* RootContainer is created.
C4_InitializeOnce ==
    /\ Len(engines) <= 1
    /\ Cardinality({e \in DOMAIN engines : engines[e].renderLoop}) <= 1
    /\ Cardinality(windowListeners) <= 1
    /\ Len(containers) <= 1

\* C5: in a frame, a scene without an active camera gets a warning and no render();
\* a scene is rendered only with an active camera and at least one camera.
C5_NoActiveCameraSkips ==
    \A k \in DOMAIN lastFrame.seen :
        /\ ~lastFrame.cam.activeCamera =>
                lastFrame.seen[k].warnings = 1 /\ lastFrame.seen[k].renders = 0
        /\ lastFrame.seen[k].renders > 0 =>
                lastFrame.cam.activeCamera /\ lastFrame.cam.cameras > 0

\* How often the last callback called render() on scene s.
RendersOf(s) ==
    Cardinality({k \in DOMAIN lastFrame.seen :
                    lastFrame.seen[k].scene = s /\ lastFrame.seen[k].renders = 1})

C7_XRSnapshot ==
    \A i \in DOMAIN inits :
        /\ inits[i].published.xrExperience # NULL =>
                /\ props.xrDefaultExperienceOptions
                /\ \E a \in Positions(i, "xrResolved") : \E b \in Positions(i, "render") : a < b
        /\ ~props.xrDefaultExperienceOptions =>
                /\ inits[i].published.xrExperience = NULL
                /\ Positions(i, "createXR") = {}

\* An invocation has published a snapshot that carries an XR experience.
C7_Witness ==
    \E i \in Completed : inits[i].published.xrExperience # NULL

\* C8: an invocation calls HavokPhysics at most once, and only when physicsOptions
\* is supplied without a plugin; with physicsOptions omitted it never calls it.
C8_HavokLoader ==
    \A i \in DOMAIN inits :
        /\ Cardinality(Positions(i, "HavokPhysics")) = inits[i].havokCalls
        /\ inits[i].havokCalls <= 1
        /\ inits[i].havokCalls > 0 => props.physicsOptions = "noPlugin"

\* An initialization without physics options has run to completion.
C8_Witness ==
    props.physicsOptions = "none" /\ Completed # {}

\* C9: after the unmount of a mounted instance the reconciler has rendered null
\* against the mounted RootContainer, the root host node has no children and
\* rootContainer.current is null.
C9_UnmountClearsRoot ==
    teardown = "Mounted" =>
        /\ rootContainer = NULL
        /\ \A i \in Completed :
                /\ containers[inits[i].container].children = 0
                /\ \E k \in Positions(i, "renderNull") :
                        inits[i].trace[k].on = inits[i].container

\* C10: when the component unmounts while initializeScene is suspended, the
\* invocation still completes, and once it has, the disposal sequence has run: the
\* engine is disposed and no resize listener is left.
C10_TeardownWhileInitializing ==
    (teardown = "Initializing" /\ Suspended = {} /\ Completed # {}) =>
        /\ windowListeners = {}
        /\ \A i \in Completed : engines[inits[i].engine].disposeCalls >= 1

\* C11: once an invocation of initializeScene has completed, the instance has
\* exactly one engine, and that engine owns exactly one scene, the one of the
\* published scene context and of the RootContainer.
C11_OneEngineOneScene ==
    \A i \in Completed :
        /\ Len(engines) = 1
        /\ engines[inits[i].engine].scenes = <<inits[i].scene>>
        /\ inits[i].published.scene = inits[i].scene
        /\ containers[inits[i].container].scene = inits[i].scene

\* C12: within an invocation, createDefaultXRExperienceAsync is called only after
\* physics enablement, when requested, has finished: after enablePhysics returned
\* and, for the default plugin, after the module load resolved; the invocation is
\* never suspended at the module load with XR negotiation already started.
C12_XRAfterPhysics ==
    \A i \in DOMAIN inits :
        /\ \A k \in Positions(i, "createXR") :
                /\ props.physicsOptions # "none" =>
                        \E j \in Positions(i, "enablePhysics") : j < k
                /\ props.physicsOptions = "noPlugin" =>
                        \E j \in Positions(i, "havokResolved") : j < k
        /\ inits[i].pc = "awaitHavok" => Positions(i, "createXR") = {}
        /\ Positions(i, "HavokPhysics") # {} /\ Positions(i, "createXR") # {} =>
                Positions(i, "havokResolved") # {}

\* With the default physics plugin and XR options, an invocation has started XR
\* negotiation.
C12_Witness ==
    /\ props.physicsOptions = "noPlugin"
    /\ props.xrDefaultExperienceOptions
    /\ \E i \in DOMAIN inits : Positions(i, "createXR") # {}

\* The calls of invocation i that belong to physics and XR.
EnrichmentCalls(i) ==
    Positions(i, "HavokPhysics") \cup Positions(i, "enablePhysics") \cup Positions(i, "createXR")

\* C13: an invocation that constructs its scene calls a supplied onSceneReady exactly
\* once, right after the construction and with that scene, and before the module
\* load, enablePhysics and XR negotiation.
C13_SceneReadyOnceBeforeEnrichment ==
    \A i \in DOMAIN inits : (props.onSceneReady /\ Positions(i, "newScene") # {}) =>
        /\ Cardinality(Positions(i, "onSceneReady")) = 1
        /\ scenes[inits[i].scene].sceneReadyCalls = 1
        /\ \A k \in Positions(i, "onSceneReady") :
                /\ k - 1 \in Positions(i, "newScene")
                /\ inits[i].trace[k].on = inits[i].scene
                /\ \A j \in EnrichmentCalls(i) : k < j

\* onSceneReady is supplied and an invocation has gone through physics and into XR.
C13_Witness ==
    /\ props.onSceneReady
    /\ \E i \in DOMAIN inits :
            Positions(i, "enablePhysics") # {} /\ Positions(i, "createXR") # {}

\* What C14 says of the mount render apart from the canvas: enrichment is over and
\* engine, scene and sceneReady are set.
MountAfterEnrichment(i) ==
    \A k \in Positions(i, "render") :
        /\ props.physicsOptions # "none" => \E j \in Positions(i, "enablePhysics") : j < k
        /\ props.xrDefaultExperienceOptions => \E j \in Positions(i, "xrResolved") : j < k
        /\ inits[i].container # NULL
        /\ inits[i].published.engine # NULL
        /\ inits[i].published.scene # NULL
        /\ inits[i].published.sceneReady

\* C14: the RootContainer is created and the contexts are published only after all
\* enrichment: at the mount render physics and XR, when requested, are over, and the
\* published engine, canvas and scene are non-null with sceneReady true; a suspended
\* invocation has published nothing.
C14_MountAfterEnrichment ==
    \A i \in DOMAIN inits :
        /\ MountAfterEnrichment(i)
        /\ Positions(i, "render") # {} => inits[i].published.canvas # NULL
        /\ i \in Suspended => inits[i].published = NoContext /\ inits[i].container = NULL

\* The invocations whose module load or XR negotiation was rejected.
Rejected == {i \in DOMAIN inits :
                Positions(i, "havokRejected") \cup Positions(i, "xrRejected") # {}}

\* C15: when the module load or the XR negotiation of an invocation is rejected,
\* nothing after it runs (no RootContainer, no reconciler render, no keydown
\* listener, the rejection is the invocation's last step) and nothing before it is
\* undone (its engine with the render loop, its scene, its resize listener and, for
\* an XR rejection, the enabled physics remain).
C15_FailureAbortsWithoutRollback ==
    \A i \in Rejected :
        LET e == inits[i].engine
            s == inits[i].scene
            last == inits[i].trace[Len(inits[i].trace)]
        IN  /\ inits[i].pc = "failed"
            /\ last.op \in {"havokRejected", "xrRejected"}
            /\ inits[i].container = NULL
            /\ inits[i].published = NoContext
            /\ Positions(i, "render") = {}
            /\ Positions(i, "addKeydown") = {}
            /\ i \notin documentListeners
            /\ e # NULL /\ engines[e].renderLoop /\ engines[e].disposeCalls = 0
            /\ s # NULL /\ engines[e].scenes = <<s>> /\ ~scenes[s].disposed
            /\ i \in windowListeners
            /\ Positions(i, "xrRejected") # {} /\ props.physicsOptions # "none" =>
                    scenes[s].physics # "none"
            /\ Positions(i, "havokRejected") # {} => scenes[s].physics = "none"

\* An XR negotiation was rejected after physics had been enabled, with the
\* inspector flag on.
C15_Witness ==
    /\ props.isInteractiveInspector
    /\ props.physicsOptions # "none"
    /\ \E i \in Rejected : Positions(i, "xrRejected") # {}

\* C16 as stated: the resize listener of an invocation is registered only once the
\* invocation has mounted the reconciliation root; it is not registered while the
\* invocation is suspended, nor after it failed.
C16_ResizeOnlyWhenMounted ==
    \A i \in DOMAIN inits :
        /\ i \in windowListeners => inits[i].pc = "done"
        /\ \A k \in Positions(i, "addResize") : \E j \in Positions(i, "render") : j < k

\* C16, amended: an invocation that passes the canvas guard registers its resize
\* listener once, in the engine section, right after runRenderLoop and before the
\* scene is constructed; the listener is registered while the invocation is
\* suspended and stays registered after it failed.
C16_ResizeInEngineSection ==
    \A i \in DOMAIN inits : inits[i].engine # NULL =>
        /\ Cardinality(Positions(i, "addResize")) = 1
        /\ \A k \in Positions(i, "addResize") :
                /\ k - 1 \in Positions(i, "runRenderLoop")
                /\ \A j \in Positions(i, "newScene") \cup EnrichmentCalls(i)
                            \cup Positions(i, "render") : k < j
        /\ i \in windowListeners

\* One invocation is suspended and another has failed, both with their resize
\* listener registered.
C16_Witness ==
    /\ \E i \in Suspended : i \in windowListeners
    /\ \E i \in Rejected : i \in windowListeners

\* C17: the keydown listener is registered only with the inspector flag on, once by
\* an invocation, and once the closure of an invocation has run its disposal
\* sequence no keydown listener of the instance is registered.
C17_KeydownOnceAndRemoved ==
    /\ ~props.isInteractiveInspector =>
            documentListeners = {} /\ \A i \in DOMAIN inits : Positions(i, "addKeydown") = {}
    /\ \A i \in DOMAIN inits : Cardinality(Positions(i, "addKeydown")) <= 1
    /\ (\E i \in DOMAIN inits : inits[i].cleanupCalls > 0) => documentListeners = {}

\* C18: an invocation that finds no canvas element does nothing: it makes no call
\* (no engine, scene, render loop, listener or reconciler render), and as long as no
\* invocation has found a canvas the engine, scene and rootContainer refs are null.
C18_NoCanvasSkips ==
    /\ \A i \in DOMAIN inits : inits[i].canvas = NULL =>
            /\ inits[i].pc = "skipped"
            /\ inits[i].trace = <<>>
            /\ inits[i].engine = NULL /\ inits[i].scene = NULL /\ inits[i].container = NULL
            /\ inits[i].published = NoContext
            /\ i \notin windowListeners \cup documentListeners
    /\ (\A i \in DOMAIN inits : inits[i].canvas = NULL) =>
            /\ engine = NULL /\ scene = NULL /\ rootContainer = NULL
            /\ engines = <<>> /\ scenes = <<>> /\ containers = <<>>
            /\ windowListeners = {} /\ documentListeners = {}

\* The effect has fired before the canvas was attached.
C18_Witness == \E i \in DOMAIN inits : inits[i].canvas = NULL

\* C19: a frame of an engine's render loop iterates the scene list of that engine,
\* every scene it looks at is owned by that engine, and the engine ref it reads is
\* not null.
C19_FrameIteratesOwnScenes ==
    lastFrame.engine # NULL =>
        /\ lastFrame.iterated # NULL
        /\ lastFrame.iterated = lastFrame.engine
        /\ \A k \in DOMAIN lastFrame.seen :
                scenes[lastFrame.seen[k].scene].engine = lastFrame.engine

\* A parameter whose name the recovery finds: an identifier, a defaulted identifier,
\* a rest identifier.
Recognised(p) ==
    \/ p.type = "Identifier"
    \/ p.type \in {"AssignmentPattern", "RestElement"} /\ p.sub.type = "Identifier"

DeclaredName(p) == IF p.type = "Identifier" THEN p.name ELSE p.sub.name

RECURSIVE RecognisedNames(_)
RecognisedNames(ps) ==
    IF ps = <<>> THEN <<>>
    ELSE (IF Recognised(Head(ps)) THEN <<DeclaredName(Head(ps))>> ELSE <<>>)
         \o RecognisedNames(Tail(ps))

\* The types of the parameters that are neither identifier, default nor rest.
RECURSIVE UnknownTypes(_)
UnknownTypes(ps) ==
    IF ps = <<>> THEN <<>>
    ELSE (IF Head(ps).type \in {"Identifier", "AssignmentPattern", "RestElement"}
          THEN <<>> ELSE <<Head(ps).type>>)
         \o UnknownTypes(Tail(ps))

\* The recovery has returned for a function declaration or a class constructor.
Recovered ==
    /\ extraction.done
    /\ fnAst.type = "FunctionDeclaration" \/ (fnAst.type = "ClassDeclaration" /\ fnAst.ctor)

\* C20 as stated: the result has one entry per declared parameter, in declaration
\* order, the name for a recognised shape and null for any other, and a diagnostic
\* is logged for every parameter that is not recognised.
C20_OneEntryPerParameter ==
    Recovered =>
        /\ ~extraction.threw
        /\ Len(extraction.result) = Len(fnAst.params)
        /\ \A k \in DOMAIN fnAst.params :
                extraction.result[k] = IF Recognised(fnAst.params[k])
                                       THEN DeclaredName(fnAst.params[k])
                                       ELSE JsNull
        /\ Len(extraction.warnings) =
                Cardinality({k \in DOMAIN fnAst.params : ~Recognised(fnAst.params[k])})

\* C20, amended: the result holds the names of the recognised parameters only, in
\* declaration order, with no entry for the others, so it can be shorter than the
\* parameter list; an unrecognised parameter never fails the recovery, and a
\* diagnostic is logged only for a parameter that is neither an identifier, a
\* default nor a rest element.
C20_RecognisedNamesOnly ==
    Recovered =>
        /\ ~extraction.threw
        /\ extraction.result = RecognisedNames(fnAst.params)
        /\ \A k \in DOMAIN extraction.result : extraction.result[k] # JsNull
        /\ extraction.warnings = UnknownTypes(fnAst.params)

\* The recovery has returned for a list with a recognised parameter, one that was
\* dropped with a diagnostic and one that was dropped without.
C20_Witness ==
    /\ Recovered
    /\ extraction.result # <<>>
    /\ extraction.warnings # <<>>
    /\ Len(extraction.result) + Len(extraction.warnings) < Len(fnAst.params)

====
